---------------------------- MODULE Spec2Model ----------------------------
(***************************************************************************)
(* Model of src/bot.py: the Slack response-time monitor.                   *)
(*                                                                         *)
(* Time is counted in whole hours since the Unix epoch (Thursday           *)
(* 1970-01-01 00:00 UTC); every timestamp and every reading of the clock   *)
(* in the model is a whole hour.  A timezone is its fixed offset in hours. *)
(* Python's None is NoTs for a timestamp and NoneStr for a text; a key     *)
(* missing from a message dict is Absent.                                  *)
(***************************************************************************)
EXTENDS Integers, Sequences, FiniteSets, TLC

VARIABLES
    environ,     \* os.environ of the process
    paths,       \* the paths that exist on the file system
    cfg,         \* self.config (immutable after load)
    pc,          \* position of the single thread in run_forever / check_channels
    cycle,       \* number of the polling cycle being run (model bookkeeping)
    now,         \* check_channels' local `now`
    channels,    \* check_channels' local `channels`
    idx,         \* position of the for loop in `channels`
    messages,    \* local `messages` of the current channel
    record,      \* local `record` of the current channel
    status,      \* local `status` of the current channel
    cursor,      \* _fetch_monitored_channels' local `cursor`
    summaryLog,  \* lines of the file config.log_path
    trailLog,    \* lines of the file config.trail_log_path
    calls,       \* calls made on self.client in this cycle, with their results
    events,      \* records passed to the logging module in this cycle
    verdicts,    \* what every evaluated channel came to, in every cycle so far
    failedCycles \* the cycles that ended in the handler of lines 115-116

vars == <<environ, paths, cfg, pc, cycle, now, channels, idx, messages, record, status, cursor,
          summaryLog, trailLog, calls, events, verdicts, failedCycles>>

-----------------------------------------------------------------------------
(* Bounds of the model *)

MaxLen == 3

MaxCycles == 2

Stamps == {6, 7, 8}

Instants == {9, 10, 13, 17, 18, 30, 56}

\* the instants at which a polling cycle may read the clock
CycleInstants == {10, 18, 30, 56}

-----------------------------------------------------------------------------
(* Python values *)

NoTs == -1

NoneStr == "<None>"

Absent == "<absent>"

\* subtypes rejected at line 233
ExcludedSubtypes == {"channel_join", "bot_message", "channel_topic", "channel_purpose"}

-----------------------------------------------------------------------------
(* The process environment and the file system *)

\* the default of CONFIG_PATH at line 317
ConfigPath == "config.yaml"

\* the parent directory of the two log files, and the files (lines 55-56)
LogDir == "logs"

LogPath == "logs/response_report.csv"

TrailLogPath == "logs/trail.log"

\* os.environ with SLACK_BOT_TOKEN set
WithToken == [SLACK_BOT_TOKEN |-> "xoxb-token"]

\* the environment and the file system once SlackMonitor is constructed
Constructed ==
    /\ environ = WithToken
    /\ paths = {ConfigPath, LogDir, LogPath, TrailLogPath}

-----------------------------------------------------------------------------
(* Configuration *)

OwnersById == ("C1" :> "U_OWN1") @@ ("beta" :> "U_OWN2")

OwnersSparse == ("C1" :> "U_OWN1") @@ ("acme" :> "U_OTHER") @@ ("C2" :> "")

OwnersIdOnly == ("C1" :> "U_OWN1") @@ ("acme" :> "U_OTHER")

\* MonitorConfig with the defaults of lines 35-38 and 52-53
CfgDefault ==
    [channel_owners |-> OwnersById, team_member_ids |-> {"U_TEAM"},
     start |-> 8, end |-> 17, tz_offset |-> 0, weekdays_only |-> TRUE,
     business_reply_hours |-> 4, overall_reply_hours |-> 24]

\* a configuration file for a UTC+5 team working every day of the week
CfgEast ==
    [channel_owners |-> OwnersSparse, team_member_ids |-> {"U_TEAM"},
     start |-> 8, end |-> 17, tz_offset |-> 5, weekdays_only |-> FALSE,
     business_reply_hours |-> 4, overall_reply_hours |-> 24]

\* a configuration file whose business threshold exceeds the overall one
CfgInverted ==
    [channel_owners |-> OwnersIdOnly, team_member_ids |-> {"U_TEAM"},
     start |-> 8, end |-> 17, tz_offset |-> 0, weekdays_only |-> TRUE,
     business_reply_hours |-> 6, overall_reply_hours |-> 3]

Configs == {CfgDefault, CfgEast, CfgInverted}

-----------------------------------------------------------------------------
(* BusinessHours.is_open *)

\* moment.astimezone(ZoneInfo(self.timezone)): the local wall clock, in hours
LocalHours(c, moment) == moment + c.tz_offset

\* datetime.weekday(): Monday is 0; the epoch day was a Thursday (3)
Weekday(local) == ((local \div 24) + 3) % 7

TimeOfDay(local) == local % 24

\* line 44 with the end of the day left out of business hours
is_open_before_end(c, moment) ==
    LET local_now == LocalHours(c, moment)
    IN  IF c.weekdays_only /\ Weekday(local_now) >= 5
        THEN FALSE
        ELSE c.start <= TimeOfDay(local_now) /\ TimeOfDay(local_now) < c.end

is_open(c, moment) ==
    LET local_now == LocalHours(c, moment)
    IN  IF c.weekdays_only /\ Weekday(local_now) >= 5
        THEN FALSE
        ELSE c.start <= TimeOfDay(local_now) /\ TimeOfDay(local_now) <= c.end

-----------------------------------------------------------------------------
(* Raw messages *)

Msg(ts, user, bot_id, subtype, text) ==
    [ts |-> ts, user |-> user, bot_id |-> bot_id, subtype |-> subtype, text |-> text]

\* the kinds of message the history API delivers
MessagesAt(ts) ==
    { Msg(ts, "U_CLIENT", Absent, Absent, "question"),
      Msg(ts, "U_TEAM", Absent, Absent, "answer"),
      Msg(ts, Absent, "B1", Absent, Absent),
      Msg(ts, Absent, Absent, Absent, "notice"),
      Msg(ts, "U_CLIENT", Absent, "channel_join", "joined"),
      Msg(ts, Absent, "B1", "bot_message", "digest") }

RawMessages == UNION { MessagesAt(ts) : ts \in Stamps }

MsgLists == UNION { [1..n -> RawMessages] : n \in 0..MaxLen }

\* no message (Python None) in the scan of _evaluate_channel
NoMsg == Msg(NoTs, Absent, Absent, Absent, Absent)

\* the test of line 235 left out: a message of no user and no bot is kept
is_valid_message_by_subtype(msg) == msg.subtype \notin ExcludedSubtypes

\* the subtype test of lines 233-234 left out
is_valid_message_any_subtype(msg) == msg.user # Absent \/ msg.bot_id # Absent

_is_valid_message(msg) ==
    IF msg.subtype \in ExcludedSubtypes
    THEN FALSE
    ELSE msg.user # Absent \/ msg.bot_id # Absent

_is_client_message(c, msg) ==
    LET user_id == IF msg.user = Absent THEN "" ELSE msg.user
    IN  IF user_id = ""
        THEN FALSE
        ELSE user_id \notin c.team_member_ids

-----------------------------------------------------------------------------
(* _evaluate_channel *)

\* the key of the sort at line 210
SortKey(m) == m.ts

\* s with m put after every element whose key is not larger (the sort is stable)
RECURSIVE InsertSorted(_, _)
InsertSorted(s, m) ==
    IF s = <<>> THEN <<m>>
    ELSE IF SortKey(s[Len(s)]) <= SortKey(m)
         THEN Append(s, m)
         ELSE Append(InsertSorted(SubSeq(s, 1, Len(s) - 1), m), s[Len(s)])

RECURSIVE SortedPrefix(_, _)
SortedPrefix(msgs, n) ==
    IF n = 0 THEN <<>>
    ELSE InsertSorted(SortedPrefix(msgs, n - 1), msgs[n])

\* line 210 left out: the messages are scanned in delivery order, newest first
sorted_messages_as_delivered(msgs) == msgs

sorted_messages(msgs) == SortedPrefix(msgs, Len(msgs))

\* the loop of lines 214-221 from position i, with the two locals
RECURSIVE Scan(_, _, _, _, _)
Scan(c, s, i, last_client_msg, last_team_reply) ==
    IF i > Len(s) THEN <<last_client_msg, last_team_reply>>
    ELSE IF ~ _is_valid_message(s[i])
         THEN Scan(c, s, i + 1, last_client_msg, last_team_reply)
         ELSE IF _is_client_message(c, s[i])
              THEN Scan(c, s, i + 1, s[i], NoMsg)
              ELSE IF last_client_msg # NoMsg
                   THEN Scan(c, s, i + 1, last_client_msg, s[i])
                   ELSE Scan(c, s, i + 1, last_client_msg, last_team_reply)

\* msg.get("text", "")
TextOf(m) == IF m.text = Absent THEN "" ELSE m.text

\* the None that _evaluate_channel returns at lines 209 and 224
NoneRecord ==
    [client_ts |-> NoTs, client_text |-> NoneStr,
     team_reply_ts |-> NoTs, team_reply_text |-> NoneStr]

_evaluate_channel(c, msgs) ==
    IF msgs = <<>> THEN NoneRecord
    ELSE LET found == Scan(c, sorted_messages(msgs), 1, NoMsg, NoMsg)
             last_client_msg == found[1]
             last_team_reply == found[2]
         IN  IF last_client_msg = NoMsg THEN NoneRecord
             ELSE [client_ts |-> last_client_msg.ts,
                   client_text |-> TextOf(last_client_msg),
                   team_reply_ts |->
                       IF last_team_reply # NoMsg THEN last_team_reply.ts ELSE NoTs,
                   team_reply_text |->
                       IF last_team_reply # NoMsg THEN TextOf(last_team_reply)
                       ELSE NoneStr]

-----------------------------------------------------------------------------
(* _decide_status *)

\* truth value of record.get("team_reply_ts"): None and 0.0 are false
Truthy(ts) == ts # NoTs /\ ts # 0

\* the comparison of line 258 written with > for >=
decide_status_strict(c, rec, moment) ==
    LET client_dt == rec.client_ts
        reply_dt == IF Truthy(rec.team_reply_ts) THEN rec.team_reply_ts ELSE NoTs
    IN  IF reply_dt # NoTs /\ reply_dt > client_dt
        THEN "answered"
        ELSE LET hours_since_client == moment - client_dt
                 within_business == is_open(c, moment)
                 threshold == IF within_business THEN c.business_reply_hours
                              ELSE c.overall_reply_hours
             IN  IF hours_since_client > threshold THEN "remind" ELSE "waiting"

\* line 253 reading timedelta.seconds for total_seconds(): the whole days elapsed
\* are dropped from hours_since_client
decide_status_seconds(c, rec, moment) ==
    LET client_dt == rec.client_ts
        reply_dt == IF Truthy(rec.team_reply_ts) THEN rec.team_reply_ts ELSE NoTs
    IN  IF reply_dt # NoTs /\ reply_dt > client_dt
        THEN "answered"
        ELSE LET hours_since_client == (moment - client_dt) % 24
                 within_business == is_open(c, moment)
                 threshold == IF within_business THEN c.business_reply_hours
                              ELSE c.overall_reply_hours
             IN  IF hours_since_client >= threshold THEN "remind" ELSE "waiting"

_decide_status(c, rec, moment) ==
    LET client_dt == rec.client_ts
        reply_dt == IF Truthy(rec.team_reply_ts) THEN rec.team_reply_ts ELSE NoTs
    IN  IF reply_dt # NoTs /\ reply_dt > client_dt
        THEN "answered"
        ELSE LET hours_since_client == moment - client_dt
                 within_business == is_open(c, moment)
                 threshold == IF within_business THEN c.business_reply_hours
                              ELSE c.overall_reply_hours
             IN  IF hours_since_client >= threshold THEN "remind" ELSE "waiting"

-----------------------------------------------------------------------------
(* The workspace behind conversations_list and conversations_history *)

Chan(id, name, name_normalized, is_member) ==
    [id |-> id, name |-> name, name_normalized |-> name_normalized,
     is_member |-> is_member]

\* the pages of conversations_list: every page but the last carries a cursor
LivePages ==
    << << Chan("C2", Absent, "beta", TRUE), Chan("C3", "gamma", "gamma", FALSE) >>,
       << Chan("C1", "acme", "acme", TRUE) >> >>

\* the histories conversations_history returns, newest first
Histories ==
    { <<>>,
      << Msg(6, "U_CLIENT", Absent, Absent, "question") >>,
      << Msg(7, "U_TEAM", Absent, Absent, "answer"),
         Msg(6, "U_CLIENT", Absent, Absent, "question") >>,
      << Msg(8, "U_CLIENT", Absent, Absent, "question"),
         Msg(7, "U_TEAM", Absent, Absent, "answer"),
         Msg(6, "U_CLIENT", Absent, Absent, "question") >>,
      << Msg(8, Absent, "B1", Absent, Absent),
         Msg(7, "U_TEAM", Absent, Absent, "answer") >>,
      << Msg(7, "U_CLIENT", Absent, "channel_join", "joined"),
         Msg(6, Absent, Absent, Absent, "notice") >> }

-----------------------------------------------------------------------------
(* _resolve_owner and the channel descriptors of _fetch_monitored_channels *)

\* a or b, for two values of dict.get that may be missing
OrElse(a, b) == IF a # Absent /\ a # "" THEN a ELSE b

\* lines 184-187 in the other order: the name is looked up before the id
resolve_owner_name_first(c, channel) ==
    LET channel_id == channel.id
        channel_name == OrElse(channel.name, channel.name_normalized)
    IN  IF channel_name # Absent /\ channel_name # ""
           /\ channel_name \in DOMAIN c.channel_owners
        THEN c.channel_owners[channel_name]
        ELSE IF channel_id \in DOMAIN c.channel_owners
             THEN c.channel_owners[channel_id]
             ELSE NoneStr

_resolve_owner(c, channel) ==
    LET channel_id == channel.id
        channel_name == OrElse(channel.name, channel.name_normalized)
    IN  IF channel_id \in DOMAIN c.channel_owners
        THEN c.channel_owners[channel_id]
        ELSE IF channel_name # Absent /\ channel_name # ""
                /\ channel_name \in DOMAIN c.channel_owners
             THEN c.channel_owners[channel_name]
             ELSE NoneStr

\* the dict appended at line 172
Descriptor(c, channel) ==
    [id |-> channel.id,
     name |-> OrElse(OrElse(channel.name, channel.name_normalized), channel.id),
     owner_id |-> _resolve_owner(c, channel)]

RECURSIVE PageDescriptors(_, _, _)
PageDescriptors(c, page, i) ==
    IF i > Len(page) THEN <<>>
    ELSE IF ~ page[i].is_member
         THEN PageDescriptors(c, page, i + 1)
         ELSE <<Descriptor(c, page[i])>> \o PageDescriptors(c, page, i + 1)

\* truth value of owner_id at lines 137 and 139
HasOwner(owner_id) == owner_id # NoneStr /\ owner_id # ""

-----------------------------------------------------------------------------
(* Log files *)

SummaryHeader ==
    [cycle |-> 0, channel_name |-> "channel_name", conversation_id |-> "conversation_id",
     client_ts |-> NoTs, team_reply_ts |-> NoTs, hours |-> NoTs, status |-> "status"]

TrailHeader ==
    [cycle |-> 0, channel_name |-> "channel_name", conversation_id |-> "conversation_id",
     client_ts |-> NoTs, team_reply_ts |-> NoTs, hours |-> NoTs, status |-> "status",
     client_text |-> "client_text", team_reply_text |-> "team_reply_text"]

\* hours_to_reply / hours_between, the empty field being NoTs
HoursToReply(rec) ==
    IF Truthy(rec.team_reply_ts) /\ rec.team_reply_ts - rec.client_ts # 0
    THEN rec.team_reply_ts - rec.client_ts
    ELSE NoTs

\* the line _log_record writes; `cycle` tags the line with the cycle that wrote it
SummaryRow(k, channel, rec, st) ==
    [cycle |-> k, channel_name |-> channel.name, conversation_id |-> channel.id,
     client_ts |-> rec.client_ts,
     team_reply_ts |-> IF Truthy(rec.team_reply_ts) THEN rec.team_reply_ts ELSE NoTs,
     hours |-> HoursToReply(rec), status |-> st]

\* the line _log_trail writes
TrailRow(k, channel, rec, st) ==
    [cycle |-> k, channel_name |-> channel.name, conversation_id |-> channel.id,
     client_ts |-> rec.client_ts,
     team_reply_ts |-> IF Truthy(rec.team_reply_ts) THEN rec.team_reply_ts ELSE NoTs,
     hours |-> HoursToReply(rec), status |-> st,
     client_text |-> rec.client_text,
     team_reply_text |-> IF rec.team_reply_text = NoneStr THEN "" ELSE rec.team_reply_text]

-----------------------------------------------------------------------------
(* The state after SlackMonitor.__init__ *)

Init ==
    /\ Constructed
    /\ cfg \in Configs
    /\ pc = "run"
    /\ cycle = 0
    /\ now = NoTs
    /\ channels = <<>>
    /\ idx = 1
    /\ messages = <<>>
    /\ record = NoneRecord
    /\ status = NoneStr
    /\ cursor = 0
    /\ summaryLog = <<SummaryHeader>>
    /\ trailLog = <<TrailHeader>>
    /\ calls = <<>>
    /\ events = <<>>
    /\ verdicts = <<>>
    /\ failedCycles = {}

-----------------------------------------------------------------------------
(* Bookkeeping shared by the actions *)

\* positions of msgs holding a valid client-authored message
ClientPositions(msgs) ==
    { i \in 1..Len(msgs) :
        /\ msgs[i].subtype \notin ExcludedSubtypes
        /\ msgs[i].user \notin {Absent, ""}
        /\ msgs[i].user \notin cfg.team_member_ids }

\* positions of msgs holding a valid message that is not client-authored
TeamPositions(msgs) ==
    { i \in 1..Len(msgs) :
        /\ msgs[i].subtype \notin ExcludedSubtypes
        /\ (msgs[i].user # Absent \/ msgs[i].bot_id # Absent)
        /\ i \notin ClientPositions(msgs) }

Call(op, chan, target, result) ==
    [op |-> op, chan |-> chan, target |-> target, result |-> result]

Event(level, what, chan) == [level |-> level, what |-> what, chan |-> chan]

\* what the current channel came to, kept for every cycle
Verdict(channel, msgs, rec, st) ==
    [cycle |-> cycle, at |-> now, chan |-> channel.id, owner_id |-> channel.owner_id,
     no_client |-> ClientPositions(msgs) = {},
     client_ts |-> rec.client_ts, team_reply_ts |-> rec.team_reply_ts,
     status |-> st]

Locals == <<channels, idx, messages, record, status, cursor>>

Files == <<summaryLog, trailLog>>

\* the `continue` of line 133 and the end of the loop body at line 144
NextChannel ==
    /\ pc' = "for"
    /\ idx' = idx + 1

\* run_forever without its try/except: the exception leaves the loop
RaiseUncaught(what) ==
    /\ pc' = "terminated"
    /\ failedCycles' = failedCycles \cup {cycle}
    /\ events' = Append(events, Event("exception", "Traceback", what))

\* an exception leaves check_channels: lines 115-117 log it and go on to sleep
Raise(what) ==
    /\ pc' = "sleep"
    /\ failedCycles' = failedCycles \cup {cycle}
    /\ events' = Append(events, Event("exception", "Monitor iteration failed", what))

-----------------------------------------------------------------------------
(* run_forever and check_channels *)

\* lines 114 and 120: check_channels is entered and reads the clock; the locals and
\* the bookkeeping of the cycle start afresh
BeginCycle ==
    /\ pc = "run"
    /\ \E t \in CycleInstants : t > now /\ now' = t
    /\ cycle' = cycle + 1
    /\ pc' = "list"
    /\ channels' = <<>>
    /\ cursor' = 0
    /\ idx' = 1
    /\ messages' = <<>>
    /\ record' = NoneRecord
    /\ status' = NoneStr
    /\ calls' = <<>>
    /\ events' = <<>>
    /\ UNCHANGED <<environ, paths, cfg, Files, verdicts, failedCycles>>

\* lines 162-176: one page of conversations_list is fetched and filtered
ListPage ==
    /\ pc = "list"
    /\ LET page == LivePages[cursor + 1]
           more == cursor + 1 < Len(LivePages)
       IN  /\ channels' = channels \o PageDescriptors(cfg, page, 1)
           /\ cursor' = IF more THEN cursor + 1 ELSE 0
           /\ pc' = IF more THEN "list" ELSE "for"
    /\ calls' = Append(calls, Call("conversations_list", Absent, Absent, "ok"))
    /\ UNCHANGED <<environ, paths, cfg, cycle, now, idx, messages, record, status, Files, events,
                   verdicts, failedCycles>>

\* lines 163-165 returning an empty list on SlackApiError
ListPageApiErrorEmpty ==
    /\ pc = "list"
    /\ calls' = Append(calls, Call("conversations_list", Absent, Absent, "api_error"))
    /\ events' = Append(events, Event("exception", "Failed to list channels", Absent))
    /\ channels' = <<>>
    /\ pc' = "for"
    /\ UNCHANGED <<environ, paths, cfg, cycle, now, idx, messages, record, status, cursor,
                   Files, verdicts, failedCycles>>

\* lines 163-165: conversations_list raises SlackApiError, the listing stops
ListPageApiError ==
    /\ pc = "list"
    /\ calls' = Append(calls, Call("conversations_list", Absent, Absent, "api_error"))
    /\ events' = Append(events, Event("exception", "Failed to list channels", Absent))
    /\ pc' = "for"
    /\ UNCHANGED <<environ, paths, cfg, cycle, now, Locals, Files, verdicts, failedCycles>>

\* conversations_list raises anything else (a transport error)
ListPageRaises ==
    /\ pc = "list"
    /\ calls' = Append(calls, Call("conversations_list", Absent, Absent, "raised"))
    /\ Raise("conversations_list")
    /\ UNCHANGED <<environ, paths, cfg, cycle, now, Locals, Files, verdicts>>

\* line 122 with no channel left: check_channels returns
EndCycle ==
    /\ pc = "for"
    /\ idx > Len(channels)
    /\ pc' = "sleep"
    /\ UNCHANGED <<environ, paths, cfg, cycle, now, Locals, Files, calls, events, verdicts, failedCycles>>

\* lines 146-151: conversations_history returns the channel's messages
FetchMessages ==
    /\ pc = "for"
    /\ idx <= Len(channels)
    /\ \E h \in Histories : messages' = h
    /\ calls' = Append(calls, Call("conversations_history", channels[idx].id, Absent, "ok"))
    /\ pc' = "evaluate"
    /\ UNCHANGED <<environ, paths, cfg, cycle, now, channels, idx, record, status, cursor, Files,
                   events, verdicts, failedCycles>>

\* _fetch_messages without its try/except: the SlackApiError leaves check_channels
FetchMessagesApiErrorUncaught ==
    /\ pc = "for"
    /\ idx <= Len(channels)
    /\ calls' = Append(calls,
                       Call("conversations_history", channels[idx].id, Absent, "api_error"))
    /\ Raise(channels[idx].id)
    /\ UNCHANGED <<environ, paths, cfg, cycle, now, Locals, Files, verdicts>>

\* lines 152-154: conversations_history raises SlackApiError
FetchMessagesApiError ==
    /\ pc = "for"
    /\ idx <= Len(channels)
    /\ messages' = <<>>
    /\ calls' = Append(calls,
                       Call("conversations_history", channels[idx].id, Absent, "api_error"))
    /\ events' = Append(events,
                        Event("exception", "Failed to fetch messages", channels[idx].id))
    /\ pc' = "evaluate"
    /\ UNCHANGED <<environ, paths, cfg, cycle, now, channels, idx, record, status, cursor, Files,
                   verdicts, failedCycles>>

\* conversations_history raises anything else
FetchMessagesRaises ==
    /\ pc = "for"
    /\ idx <= Len(channels)
    /\ calls' = Append(calls,
                       Call("conversations_history", channels[idx].id, Absent, "raised"))
    /\ Raise(channels[idx].id)
    /\ UNCHANGED <<environ, paths, cfg, cycle, now, Locals, Files, verdicts>>

\* line 133 written with `return` for `continue`
after_evaluate_return(rec) ==
    IF rec = NoneRecord
    THEN /\ events' = Append(events,
                             Event("info", "No client messages found", channels[idx].id))
         /\ verdicts' = Append(verdicts, Verdict(channels[idx], messages, rec, "none"))
         /\ pc' = "sleep"
         /\ idx' = idx
    ELSE /\ pc' = "decide"
         /\ idx' = idx
         /\ UNCHANGED <<events, verdicts>>

\* what lines 131-133 do with the record of line 130
AfterEvaluate(rec) ==
    IF rec = NoneRecord
    THEN /\ events' = Append(events,
                             Event("info", "No client messages found", channels[idx].id))
         /\ verdicts' = Append(verdicts, Verdict(channels[idx], messages, rec, "none"))
         /\ NextChannel
    ELSE /\ pc' = "decide"
         /\ idx' = idx
         /\ UNCHANGED <<events, verdicts>>

\* lines 130-133
Evaluate ==
    /\ pc = "evaluate"
    /\ record' = _evaluate_channel(cfg, messages)
    /\ AfterEvaluate(record')
    /\ UNCHANGED <<environ, paths, cfg, cycle, now, channels, messages, status, cursor, Files, calls,
                   failedCycles>>

\* line 134 with a memory of the reminders: a message already reminded about is
\* not reminded about again
DecideOnce ==
    /\ pc = "decide"
    /\ status' =
          IF \E i \in 1..Len(verdicts) :
                /\ verdicts[i].chan = channels[idx].id
                /\ verdicts[i].client_ts = record.client_ts
                /\ verdicts[i].status = "remind"
          THEN IF _decide_status(cfg, record, now) = "answered" THEN "answered"
               ELSE "waiting"
          ELSE _decide_status(cfg, record, now)
    /\ verdicts' = Append(verdicts, Verdict(channels[idx], messages, record, status'))
    /\ pc' = "log_record"
    /\ UNCHANGED <<environ, paths, cfg, cycle, now, channels, idx, messages, record, cursor, Files,
                   calls, events, failedCycles>>

\* line 134
Decide ==
    /\ pc = "decide"
    /\ status' = _decide_status(cfg, record, now)
    /\ verdicts' = Append(verdicts, Verdict(channels[idx], messages, record, status'))
    /\ pc' = "log_record"
    /\ UNCHANGED <<environ, paths, cfg, cycle, now, channels, idx, messages, record, cursor, Files,
                   calls, events, failedCycles>>

\* line 135: _log_record appends its line
LogRecord ==
    /\ pc = "log_record"
    /\ summaryLog' = Append(summaryLog, SummaryRow(cycle, channels[idx], record, status))
    /\ pc' = "log_trail"
    /\ UNCHANGED <<environ, paths, cfg, cycle, now, Locals, trailLog, calls, events, verdicts, failedCycles>>

\* line 285: the summary file cannot be opened or written (OSError)
LogRecordRaises ==
    /\ pc = "log_record"
    /\ Raise(channels[idx].id)
    /\ UNCHANGED <<environ, paths, cfg, cycle, now, Locals, Files, calls, verdicts>>

\* line 136 run for the unanswered exchanges only
LogTrailUnanswered ==
    /\ pc = "log_trail"
    /\ trailLog' = IF status = "answered" THEN trailLog
                   ELSE Append(trailLog, TrailRow(cycle, channels[idx], record, status))
    /\ pc' = "dispatch"
    /\ UNCHANGED <<environ, paths, cfg, cycle, now, Locals, summaryLog, calls, events, verdicts,
                   failedCycles>>

\* line 136: _log_trail appends its line
LogTrail ==
    /\ pc = "log_trail"
    /\ trailLog' = Append(trailLog, TrailRow(cycle, channels[idx], record, status))
    /\ pc' = "dispatch"
    /\ UNCHANGED <<environ, paths, cfg, cycle, now, Locals, summaryLog, calls, events, verdicts, failedCycles>>

\* line 306: the trail file cannot be opened or written (OSError)
LogTrailRaises ==
    /\ pc = "log_trail"
    /\ Raise(channels[idx].id)
    /\ UNCHANGED <<environ, paths, cfg, cycle, now, Locals, Files, calls, verdicts>>

\* line 137 testing status != "answered": a waiting channel is reminded too
DispatchUnanswered ==
    /\ pc = "dispatch"
    /\ IF status # "answered" /\ HasOwner(channels[idx].owner_id)
       THEN /\ pc' = "dm_open"
            /\ UNCHANGED <<idx, events>>
       ELSE IF status = "remind" /\ ~ HasOwner(channels[idx].owner_id)
            THEN /\ events' = Append(events,
                                     Event("warning", "no owner configured", channels[idx].id))
                 /\ NextChannel
            ELSE /\ NextChannel
                 /\ UNCHANGED events
    /\ UNCHANGED <<environ, paths, cfg, cycle, now, channels, messages, record, status, cursor, Files,
                   calls, verdicts, failedCycles>>

\* lines 139-144 left out: a missing owner goes unnoticed
DispatchSilent ==
    /\ pc = "dispatch"
    /\ IF status = "remind" /\ HasOwner(channels[idx].owner_id)
       THEN /\ pc' = "dm_open"
            /\ UNCHANGED <<idx, events>>
       ELSE /\ NextChannel
            /\ UNCHANGED events
    /\ UNCHANGED <<environ, paths, cfg, cycle, now, channels, messages, record, status, cursor, Files,
                   calls, verdicts, failedCycles>>

\* lines 137-144
Dispatch ==
    /\ pc = "dispatch"
    /\ IF status = "remind" /\ HasOwner(channels[idx].owner_id)
       THEN /\ pc' = "dm_open"
            /\ UNCHANGED <<idx, events>>
       ELSE IF status = "remind" /\ ~ HasOwner(channels[idx].owner_id)
            THEN /\ events' = Append(events,
                                     Event("warning", "no owner configured", channels[idx].id))
                 /\ NextChannel
            ELSE /\ NextChannel
                 /\ UNCHANGED events
    /\ UNCHANGED <<environ, paths, cfg, cycle, now, channels, messages, record, status, cursor, Files,
                   calls, verdicts, failedCycles>>

-----------------------------------------------------------------------------
(* _send_reminder *)

\* line 264: conversations_open returns the direct-message channel
DmOpen ==
    /\ pc = "dm_open"
    /\ calls' = Append(calls, Call("conversations_open", channels[idx].id,
                                   channels[idx].owner_id, "ok"))
    /\ pc' = "post"
    /\ UNCHANGED <<environ, paths, cfg, cycle, now, Locals, Files, events, verdicts, failedCycles>>

\* lines 268-269: conversations_open raises SlackApiError
DmOpenApiError ==
    /\ pc = "dm_open"
    /\ calls' = Append(calls, Call("conversations_open", channels[idx].id,
                                   channels[idx].owner_id, "api_error"))
    /\ events' = Append(events,
                        Event("exception", "Failed to send reminder", channels[idx].id))
    /\ NextChannel
    /\ UNCHANGED <<environ, paths, cfg, cycle, now, channels, messages, record, status, cursor, Files,
                   verdicts, failedCycles>>

\* conversations_open raises anything else
DmOpenRaises ==
    /\ pc = "dm_open"
    /\ calls' = Append(calls, Call("conversations_open", channels[idx].id,
                                   channels[idx].owner_id, "raised"))
    /\ Raise(channels[idx].id)
    /\ UNCHANGED <<environ, paths, cfg, cycle, now, Locals, Files, verdicts>>

\* lines 266-267: chat_postMessage delivers the reminder
PostReminder ==
    /\ pc = "post"
    /\ calls' = Append(calls, Call("chat_postMessage", channels[idx].id,
                                   channels[idx].owner_id, "ok"))
    /\ events' = Append(events, Event("info", "Reminder sent", channels[idx].id))
    /\ NextChannel
    /\ UNCHANGED <<environ, paths, cfg, cycle, now, channels, messages, record, status, cursor, Files,
                   verdicts, failedCycles>>

\* lines 268-269: chat_postMessage raises SlackApiError
PostReminderApiError ==
    /\ pc = "post"
    /\ calls' = Append(calls, Call("chat_postMessage", channels[idx].id,
                                   channels[idx].owner_id, "api_error"))
    /\ events' = Append(events,
                        Event("exception", "Failed to send reminder", channels[idx].id))
    /\ NextChannel
    /\ UNCHANGED <<environ, paths, cfg, cycle, now, channels, messages, record, status, cursor, Files,
                   verdicts, failedCycles>>

\* chat_postMessage raises anything else
PostReminderRaises ==
    /\ pc = "post"
    /\ calls' = Append(calls, Call("chat_postMessage", channels[idx].id,
                                   channels[idx].owner_id, "raised"))
    /\ Raise(channels[idx].id)
    /\ UNCHANGED <<environ, paths, cfg, cycle, now, Locals, Files, verdicts>>

\* the model follows the loop for MaxCycles cycles, and as long as its clock lasts
Followed == cycle < MaxCycles /\ \E t \in CycleInstants : t > now

\* line 117: time.sleep returns and the while loop comes round
Sleep ==
    /\ pc = "sleep"
    /\ Followed
    /\ pc' = "run"
    /\ UNCHANGED <<environ, paths, cfg, cycle, now, Locals, Files, calls, events, verdicts, failedCycles>>

Next ==
    \/ BeginCycle
    \/ ListPage
    \/ ListPageApiError
    \/ ListPageRaises
    \/ EndCycle
    \/ FetchMessages
    \/ FetchMessagesApiError
    \/ FetchMessagesRaises
    \/ Evaluate
    \/ Decide
    \/ LogRecord
    \/ LogRecordRaises
    \/ LogTrail
    \/ LogTrailRaises
    \/ Dispatch
    \/ DmOpen
    \/ DmOpenApiError
    \/ DmOpenRaises
    \/ PostReminder
    \/ PostReminderApiError
    \/ PostReminderRaises
    \/ Sleep

Spec == Init /\ [][Next]_vars

\* The loop under its scheduling: the single thread always takes its next step and
\* time.sleep always returns.  One configuration is followed: the configuration
\* steers the loop at Dispatch only, and CfgEast has a channel with an owner and a
\* channel without.
FairInit == Init /\ cfg = CfgEast

FairSpec == FairInit /\ [][Next]_vars /\ WF_vars(Next)

-----------------------------------------------------------------------------
(* main: the process from its start to run_forever *)

\* `config` before load_config has returned
NoConfig == [loaded |-> FALSE]

\* the configuration file on disk, when there is one
ConfigFiles == {CfgEast}

\* os.environ with SLACK_BOT_TOKEN set, set to the empty string, or not set
Environs == {WithToken, [SLACK_BOT_TOKEN |-> ""], [SLACK_BOT_TOKEN |-> Absent]}

\* the rows an earlier run of the monitor has left in the two logs
EarlierChannel == [id |-> "C1", name |-> "acme", owner_id |-> "U_OWN1"]

EarlierRecord ==
    [client_ts |-> 6, client_text |-> "question",
     team_reply_ts |-> NoTs, team_reply_text |-> NoneStr]

EarlierSummary == <<SummaryHeader, SummaryRow(0, EarlierChannel, EarlierRecord, "waiting")>>

EarlierTrail == <<TrailHeader, TrailRow(0, EarlierChannel, EarlierRecord, "waiting")>>

\* what the process may find on the file system: the existing paths, the content of
\* the summary log and the content of the trail log (<<>> for a missing or empty file)
Disks ==
    { <<{ConfigPath}, <<>>, <<>>>>,
      <<{}, <<>>, <<>>>>,
      <<{ConfigPath, LogDir, LogPath, TrailLogPath}, EarlierSummary, EarlierTrail>>,
      <<{LogDir, LogPath, TrailLogPath}, EarlierSummary, EarlierTrail>>,
      <<{ConfigPath, LogDir, LogPath}, <<>>, <<>>>> }

MainInit ==
    /\ environ \in Environs
    /\ \E d \in Disks : paths = d[1] /\ summaryLog = d[2] /\ trailLog = d[3]
    /\ cfg = NoConfig
    /\ pc = "load_config"
    /\ cycle = 0
    /\ now = NoTs
    /\ channels = <<>>
    /\ idx = 1
    /\ messages = <<>>
    /\ record = NoneRecord
    /\ status = NoneStr
    /\ cursor = 0
    /\ calls = <<>>
    /\ events = <<>>
    /\ verdicts = <<>>
    /\ failedCycles = {}

\* an exception leaves main: the interpreter prints the traceback and exits
Exit(what) ==
    /\ pc' = "exit"
    /\ events' = Append(events, Event("exception", "Traceback", what))

\* lines 317-322, the configuration file exists
LoadConfig ==
    /\ pc = "load_config"
    /\ ConfigPath \in paths
    /\ cfg' \in ConfigFiles
    /\ pc' = "build_client"
    /\ UNCHANGED <<environ, paths, cycle, now, Locals, Files, calls, events, verdicts,
                   failedCycles>>

\* load_config falling back on the defaults of MonitorConfig when there is no file
LoadConfigDefaults ==
    /\ pc = "load_config"
    /\ ConfigPath \notin paths
    /\ cfg' = CfgDefault
    /\ pc' = "build_client"
    /\ UNCHANGED <<environ, paths, cycle, now, Locals, Files, calls, events, verdicts,
                   failedCycles>>

\* lines 318-321: FileNotFoundError
LoadConfigMissing ==
    /\ pc = "load_config"
    /\ ConfigPath \notin paths
    /\ Exit("FileNotFoundError")
    /\ UNCHANGED <<environ, paths, cfg, cycle, now, Locals, Files, calls, verdicts,
                   failedCycles>>

\* truth value of the token read at line 326
HasToken == environ.SLACK_BOT_TOKEN \notin {Absent, ""}

\* lines 326-329, the token is set
BuildClient ==
    /\ pc = "build_client"
    /\ HasToken
    /\ pc' = "ensure_log_path"
    /\ UNCHANGED <<environ, paths, cfg, cycle, now, Locals, Files, calls, events,
                   verdicts, failedCycles>>

\* lines 327-328: EnvironmentError
BuildClientNoToken ==
    /\ pc = "build_client"
    /\ ~ HasToken
    /\ Exit("EnvironmentError")
    /\ UNCHANGED <<environ, paths, cfg, cycle, now, Locals, Files, calls, verdicts,
                   failedCycles>>

\* _ensure_file without the test of line 107: the header is written over the file
EnsureLogFileAnew ==
    /\ pc = "ensure_log_path"
    /\ paths' = paths \cup {LogDir, LogPath}
    /\ summaryLog' = <<SummaryHeader>>
    /\ pc' = "ensure_trail_log_path"
    /\ UNCHANGED <<environ, cfg, cycle, now, Locals, trailLog, calls, events, verdicts,
                   failedCycles>>

\* lines 95-98: _ensure_file for the summary log
EnsureLogFile ==
    /\ pc = "ensure_log_path"
    /\ paths' = paths \cup {LogDir, LogPath}
    /\ summaryLog' = IF LogPath \notin paths THEN <<SummaryHeader>> ELSE summaryLog
    /\ pc' = "ensure_trail_log_path"
    /\ UNCHANGED <<environ, cfg, cycle, now, Locals, trailLog, calls, events, verdicts,
                   failedCycles>>

\* lines 99-103: _ensure_file for the trail log; the constructor returns and main
\* enters run_forever
EnsureTrailFile ==
    /\ pc = "ensure_trail_log_path"
    /\ paths' = paths \cup {LogDir, TrailLogPath}
    /\ trailLog' = IF TrailLogPath \notin paths THEN <<TrailHeader>> ELSE trailLog
    /\ pc' = "run"
    /\ UNCHANGED <<environ, cfg, cycle, now, Locals, summaryLog, calls, events, verdicts,
                   failedCycles>>

MainNext ==
    \/ LoadConfig
    \/ LoadConfigMissing
    \/ BuildClient
    \/ BuildClientNoToken
    \/ EnsureLogFile
    \/ EnsureTrailFile
    \/ Next

MainSpec == MainInit /\ [][MainNext]_vars

-----------------------------------------------------------------------------
(* The evaluation and decision steps of one channel, from any fetched history *)

EvalInit ==
    /\ Constructed
    /\ cfg \in Configs
    /\ pc = "evaluate"
    /\ cycle = 1
    /\ now \in Instants
    /\ channels = PageDescriptors(cfg, LivePages[1], 1)
    /\ idx = 1
    /\ messages \in MsgLists
    /\ record = NoneRecord
    /\ status = NoneStr
    /\ cursor = 1
    /\ summaryLog = <<SummaryHeader>>
    /\ trailLog = <<TrailHeader>>
    /\ calls = << Call("conversations_list", Absent, Absent, "ok"),
                  Call("conversations_list", Absent, Absent, "api_error"),
                  Call("conversations_history", "C2", Absent, "ok") >>
    /\ events = << Event("exception", "Failed to list channels", Absent) >>
    /\ verdicts = <<>>
    /\ failedCycles = {}

EvalNext ==
    \/ Evaluate
    \/ Decide

EvalSpec == EvalInit /\ [][EvalNext]_vars

-----------------------------------------------------------------------------
(* The same two steps at every hour of eight days, from the histories of the  *)
(* workspace: the clock of line 120 read on every weekday, at every time of    *)
(* day                                                                         *)

\* Thursday 1970-01-01 00:00 UTC to Thursday 1970-01-08 23:00 UTC
WeekInstants == 0..(8 * 24 - 1)

HoursInit ==
    /\ Constructed
    /\ cfg \in Configs
    /\ pc = "evaluate"
    /\ cycle = 1
    /\ now \in WeekInstants
    /\ channels = PageDescriptors(cfg, LivePages[1], 1)
    /\ idx = 1
    /\ messages \in Histories
    /\ record = NoneRecord
    /\ status = NoneStr
    /\ cursor = 1
    /\ summaryLog = <<SummaryHeader>>
    /\ trailLog = <<TrailHeader>>
    /\ calls = << Call("conversations_list", Absent, Absent, "ok"),
                  Call("conversations_list", Absent, Absent, "api_error"),
                  Call("conversations_history", "C2", Absent, "ok") >>
    /\ events = << Event("exception", "Failed to list channels", Absent) >>
    /\ verdicts = <<>>
    /\ failedCycles = {}

HoursSpec == HoursInit /\ [][EvalNext]_vars

-----------------------------------------------------------------------------
(* Vocabulary of the properties, stated on the fetched messages themselves *)

MaxOf(S) == CHOOSE x \in S : \A y \in S : y <= x

MinOf(S) == CHOOSE x \in S : \A y \in S : x <= y

\* timestamp of the most recent client message
LastClientTs(msgs) == MaxOf({ msgs[i].ts : i \in ClientPositions(msgs) })

\* the last client message has a later team reply
HasLaterReply(msgs) ==
    /\ ClientPositions(msgs) # {}
    /\ \E j \in TeamPositions(msgs) : msgs[j].ts > LastClientTs(msgs)

\* the evaluation step has run on `messages` and found an exchange
Evaluated == pc \in {"decide", "log_record"}

Decided == pc = "log_record"

-----------------------------------------------------------------------------
(* C1: for an exchange that is not answered (no reply, or a reply that is not  *)
(* strictly after the client message), the decision is "remind" exactly when   *)
(* the hours elapsed since the client message reach the applicable threshold,  *)
(* and "waiting" otherwise; the threshold is business_reply_hours when         *)
(* is_open(now) and overall_reply_hours when not.                              *)

C1_Threshold ==
    IF is_open(cfg, now) THEN cfg.business_reply_hours ELSE cfg.overall_reply_hours

C1_NotAnswered ==
    record.team_reply_ts = NoTs \/ record.team_reply_ts <= record.client_ts

C1_DecisionByThreshold ==
    (Decided /\ C1_NotAnswered) =>
        /\ (now - record.client_ts >= C1_Threshold) => status = "remind"
        /\ (now - record.client_ts < C1_Threshold) => status = "waiting"
        /\ status \in {"remind", "waiting"}

\* five hours elapsed inside business hours with the threshold of 4: "remind"
C1_Witness ==
    /\ Decided /\ C1_NotAnswered
    /\ is_open(cfg, now) /\ cfg.business_reply_hours = 4
    /\ now - record.client_ts = 5
    /\ status = "remind"

-----------------------------------------------------------------------------
(* C2: when the last client message is followed by a later team reply (a valid *)
(* non-client message with a larger timestamp), the record's team_reply_ts is  *)
(* strictly greater than its client_ts and the decision is "answered", at      *)
(* every instant and whatever the business-hours status.                       *)

C2_RepliedIsAnswered ==
    (Evaluated /\ HasLaterReply(messages)) =>
        /\ record.team_reply_ts # NoTs
        /\ record.team_reply_ts > record.client_ts
        /\ Decided => status = "answered"

\* a replied exchange that is a day old, decided outside business hours
C2_Witness ==
    /\ Decided /\ HasLaterReply(messages)
    /\ ~ is_open(cfg, now)
    /\ now - record.client_ts >= cfg.overall_reply_hours
    /\ status = "answered"

-----------------------------------------------------------------------------
(* C4: the record pairs the most recent client message with the FIRST team     *)
(* reply after it: client_ts is the greatest timestamp of a valid client       *)
(* message, and team_reply_ts is the timestamp of the earliest valid           *)
(* non-client message that comes after that client message, if there is one.   *)

\* the valid non-client messages behind the last client message in time order
C4_RepliesAfter(msgs) ==
    LET s == sorted_messages(msgs)
        last == MaxOf(ClientPositions(s))
    IN  { s[j].ts : j \in { k \in TeamPositions(s) : k > last } }

\* the timestamps of a channel are unique
C4_DistinctTs(msgs) ==
    \A i, j \in 1..Len(msgs) : i # j => msgs[i].ts # msgs[j].ts

C4_PairsFirstReply ==
    (Evaluated /\ C4_DistinctTs(messages)) =>
        /\ record.client_ts = LastClientTs(messages)
        /\ record.team_reply_ts =
              IF C4_RepliesAfter(messages) = {} THEN NoTs
              ELSE MinOf(C4_RepliesAfter(messages))

-----------------------------------------------------------------------------
(* Vocabulary of the properties of a polling cycle *)

AllVerdicts == { verdicts[i] : i \in 1..Len(verdicts) }

\* the channels evaluated in the cycle being run, each with what it came to
CycleVerdicts == { v \in AllVerdicts : v.cycle = cycle }

\* data rows of a log file written in cycle k for channel chan
RowsOf(log, k, chan) ==
    { i \in 2..Len(log) : log[i].cycle = k /\ log[i].conversation_id = chan }

\* calls of this cycle with an operation in ops made for channel chan
CallsOf(ops, chan) ==
    { i \in 1..Len(calls) : calls[i].op \in ops /\ calls[i].chan = chan }

ReminderOps == {"conversations_open", "chat_postMessage"}

OwnerResolvable(owner_id) == owner_id \notin {NoneStr, ""}

\* the loop body of check_channels has run to its end for channel chan
StepCompleted(chan) ==
    \E i \in 1..Len(channels) : channels[i].id = chan /\ i < idx

\* the cycle being run has ended, and not in the handler of lines 115-116
CycleEndedWell == pc \in {"sleep", "run"} /\ cycle >= 1 /\ cycle \notin failedCycles

CycleEnded == pc \in {"sleep", "run"} /\ cycle >= 1

-----------------------------------------------------------------------------
(* C3: a fetched message list (the empty one included) with no valid           *)
(* client-authored message evaluates to "no exchange", and the cycle writes no *)
(* summary row, no trail row and sends no reminder for that channel.           *)

C3_NoClientNoExchange ==
    \A v \in AllVerdicts :
        v.no_client =>
            /\ v.status = "none"
            /\ RowsOf(summaryLog, v.cycle, v.chan) = {}
            /\ RowsOf(trailLog, v.cycle, v.chan) = {}
            /\ v.cycle = cycle => CallsOf(ReminderOps, v.chan) = {}

\* a cycle has ended in which one channel had messages but none of a client, and
\* another channel was logged
C3_Witness ==
    /\ CycleEnded
    /\ \E v \in CycleVerdicts :
          /\ v.no_client /\ v.chan = "C2" /\ messages # <<>>
          /\ RowsOf(summaryLog, cycle, "C1") # {}

-----------------------------------------------------------------------------
(* C5, as stated: in every cycle and for every channel, status "remind" with a *)
(* resolvable owner gives exactly one reminder attempt to that owner (one      *)
(* DM-open, at most one post) and none to anyone else; any other outcome gives *)
(* no reminder attempt.                                                        *)

C5_RemindersOf(v) == CallsOf(ReminderOps, v.chan)

C5_ExactlyOneReminderPerCycle ==
    CycleEnded =>
        \A v \in CycleVerdicts :
            IF v.status = "remind" /\ OwnerResolvable(v.owner_id)
            THEN /\ Cardinality(CallsOf({"conversations_open"}, v.chan)) = 1
                 /\ Cardinality(CallsOf({"chat_postMessage"}, v.chan)) <= 1
                 /\ \A i \in C5_RemindersOf(v) : calls[i].target = v.owner_id
            ELSE C5_RemindersOf(v) = {}

(* C5, amended: a reminder is attempted only for a channel whose status is     *)
(* "remind" and whose owner is resolvable, only to that owner, and at most     *)
(* once per cycle (one DM-open, then at most one post, and a post only after a *)
(* successful DM-open); it is attempted exactly once when the channel's step   *)
(* runs to its end, which it does in every cycle that no unexpected error      *)
(* abandons.                                                                   *)

C5_OneReminderUnlessAbandoned ==
    /\ \A i \in 1..Len(calls) :
          calls[i].op \in ReminderOps => \E v \in CycleVerdicts : v.chan = calls[i].chan
    /\ \A v \in CycleVerdicts :
          /\ \A i \in C5_RemindersOf(v) :
                /\ v.status = "remind"
                /\ OwnerResolvable(v.owner_id)
                /\ calls[i].target = v.owner_id
          /\ Cardinality(CallsOf({"conversations_open"}, v.chan)) <= 1
          /\ Cardinality(CallsOf({"chat_postMessage"}, v.chan)) <= 1
          /\ \A i \in CallsOf({"chat_postMessage"}, v.chan) :
                \E j \in CallsOf({"conversations_open"}, v.chan) :
                    j < i /\ calls[j].result = "ok"
          /\ (StepCompleted(v.chan) /\ v.status = "remind" /\ OwnerResolvable(v.owner_id))
                => Cardinality(CallsOf({"conversations_open"}, v.chan)) = 1
          /\ CycleEndedWell => StepCompleted(v.chan)

\* a cycle has ended well with one channel reminded (DM opened and posted) and
\* another one waiting
C5_Witness ==
    /\ CycleEndedWell
    /\ \E v, w \in CycleVerdicts :
          /\ v.status = "remind" /\ OwnerResolvable(v.owner_id)
          /\ Cardinality(CallsOf({"conversations_open"}, v.chan)) = 1
          /\ Cardinality(CallsOf({"chat_postMessage"}, v.chan)) = 1
          /\ w.status = "waiting" /\ OwnerResolvable(w.owner_id)
          /\ C5_RemindersOf(w) = {}

-----------------------------------------------------------------------------
(* C6, as stated: status "remind" without a resolvable owner sends no reminder *)
(* (no DM-open, no post), logs a warning, still writes the summary row and the *)
(* trail row with status "remind", and goes on to the next channel.            *)

C6_HasWarning(chan) ==
    \E i \in 1..Len(events) : events[i].level = "warning" /\ events[i].chan = chan

C6_RowsWritten(v) ==
    /\ \E i \in RowsOf(summaryLog, v.cycle, v.chan) : summaryLog[i].status = "remind"
    /\ \E i \in RowsOf(trailLog, v.cycle, v.chan) : trailLog[i].status = "remind"

C6_Ownerless(v) == v.status = "remind" /\ ~ OwnerResolvable(v.owner_id)

C6_MissingOwnerWarns ==
    CycleEnded =>
        \A v \in CycleVerdicts :
            C6_Ownerless(v) =>
                /\ C5_RemindersOf(v) = {}
                /\ C6_HasWarning(v.chan)
                /\ C6_RowsWritten(v)
                /\ StepCompleted(v.chan)

(* C6, amended: status "remind" without a resolvable owner never sends a       *)
(* reminder; and unless a log write raises an unexpected error, which abandons *)
(* the cycle, the warning is logged after both rows were written with status   *)
(* "remind", and processing goes on to the next channel.                       *)

C6_MissingOwnerWarnsUnlessAbandoned ==
    \A v \in CycleVerdicts :
        C6_Ownerless(v) =>
            /\ C5_RemindersOf(v) = {}
            /\ C6_HasWarning(v.chan) <=> StepCompleted(v.chan)
            /\ StepCompleted(v.chan) => C6_RowsWritten(v)
            /\ CycleEndedWell => StepCompleted(v.chan)
            /\ (CycleEnded /\ ~ StepCompleted(v.chan)) => cycle \in failedCycles

\* the ownerless channel was warned about and the next channel has been evaluated
C6_Witness ==
    \E v, w \in CycleVerdicts :
        /\ C6_Ownerless(v) /\ C6_HasWarning(v.chan) /\ C6_RowsWritten(v)
        /\ StepCompleted(v.chan)
        /\ w.chan # v.chan
        /\ \E i, j \in 1..Len(channels) :
              i < j /\ channels[i].id = v.chan /\ channels[j].id = w.chan

-----------------------------------------------------------------------------
(* C10, as stated: in every cycle, every channel whose evaluation yields an    *)
(* exchange gets exactly one summary row and exactly one trail row, both with  *)
(* the status decided for it, whatever the status and the owner; a channel     *)
(* with no exchange gets no row.                                               *)

C10_RowsCarry(log, v) ==
    \A i \in RowsOf(log, v.cycle, v.chan) : log[i].status = v.status

C10_OneRowPerEvaluatedChannel ==
    CycleEnded =>
        \A v \in CycleVerdicts :
            IF v.status = "none"
            THEN RowsOf(summaryLog, v.cycle, v.chan) = {}
                 /\ RowsOf(trailLog, v.cycle, v.chan) = {}
            ELSE /\ Cardinality(RowsOf(summaryLog, v.cycle, v.chan)) = 1
                 /\ Cardinality(RowsOf(trailLog, v.cycle, v.chan)) = 1
                 /\ C10_RowsCarry(summaryLog, v)
                 /\ C10_RowsCarry(trailLog, v)

(* C10, amended: every channel whose evaluation yields an exchange and whose   *)
(* step is not cut short by an unexpected error gets exactly one summary row   *)
(* and exactly one trail row, both with the status decided for it; a step cut  *)
(* short leaves at most the summary row, or no row; every row of a cycle       *)
(* belongs to a channel evaluated in it, and a channel with no exchange gets   *)
(* no row.  A cycle that ends without an unexpected error cuts no step short.  *)

C10_Logged(v) ==
    /\ Cardinality(RowsOf(summaryLog, v.cycle, v.chan)) = 1
    /\ Cardinality(RowsOf(trailLog, v.cycle, v.chan)) = 1

C10_OneRowUnlessAbandoned ==
    /\ \A i \in 2..Len(summaryLog) :
          \E v \in AllVerdicts : v.cycle = summaryLog[i].cycle
                                 /\ v.chan = summaryLog[i].conversation_id
    /\ \A i \in 2..Len(trailLog) :
          \E v \in AllVerdicts : v.cycle = trailLog[i].cycle
                                 /\ v.chan = trailLog[i].conversation_id
    /\ \A v \in AllVerdicts :
          /\ Cardinality(RowsOf(trailLog, v.cycle, v.chan))
                <= Cardinality(RowsOf(summaryLog, v.cycle, v.chan))
          /\ Cardinality(RowsOf(summaryLog, v.cycle, v.chan)) <= 1
          /\ C10_RowsCarry(summaryLog, v)
          /\ C10_RowsCarry(trailLog, v)
          /\ v.status = "none" => RowsOf(summaryLog, v.cycle, v.chan) = {}
          /\ (v.status # "none" /\ v.cycle = cycle /\ StepCompleted(v.chan))
                => C10_Logged(v)
          /\ (v.status # "none" /\ v.cycle \notin failedCycles
              /\ (v.cycle < cycle \/ CycleEnded))
                => C10_Logged(v)

\* a cycle has ended well with an answered, owned channel and a reminded, ownerless
\* channel both logged
C10_Witness ==
    /\ CycleEndedWell
    /\ \E v, w \in CycleVerdicts :
          /\ v.status = "answered" /\ OwnerResolvable(v.owner_id) /\ C10_Logged(v)
          /\ w.status = "remind" /\ ~ OwnerResolvable(w.owner_id) /\ C10_Logged(w)

-----------------------------------------------------------------------------
(* C9, as stated: once a channel's unanswered last client message produced     *)
(* "remind" in a cycle, every later cycle in which it is still the last client *)
(* message and still has no reply produces "remind" too.                       *)

\* w is a later verdict on the same, still unreplied, client message as v
C9_SameMessageLater(v, w) ==
    /\ v.chan = w.chan
    /\ v.cycle < w.cycle
    /\ v.status = "remind"
    /\ w.status # "none"
    /\ w.client_ts = v.client_ts
    /\ w.team_reply_ts = NoTs

\* (read on the cycles that ran to their end, the reminded one included)
C9_RemindEveryCycle ==
    \A v, w \in AllVerdicts :
        (C9_SameMessageLater(v, w) /\ v.cycle \notin failedCycles) => w.status = "remind"

(* C9, amended: no "already reminded" state is kept: once a channel's          *)
(* unanswered last client message produced "remind" in a cycle, every later    *)
(* cycle in which it is still the last client message, still has no reply and  *)
(* the business-hours status is_open(now) is the same as in that cycle also    *)
(* produces "remind"; and with a resolvable owner each such cycle makes a new  *)
(* reminder attempt (a DM-open to the owner) once the channel's step has run   *)
(* to its end.                                                                 *)

C9_RemindEveryCycleSameHours ==
    \A v, w \in AllVerdicts :
        (C9_SameMessageLater(v, w) /\ is_open(cfg, v.at) = is_open(cfg, w.at)) =>
            /\ w.status = "remind"
            /\ (w.cycle = cycle /\ OwnerResolvable(w.owner_id) /\ StepCompleted(w.chan))
                  => \E i \in CallsOf({"conversations_open"}, w.chan) :
                        calls[i].target = w.owner_id

\* the second cycle reminded the owner again about the same message
C9_Witness ==
    \E v, w \in AllVerdicts :
        /\ C9_SameMessageLater(v, w) /\ is_open(cfg, v.at) = is_open(cfg, w.at)
        /\ w.cycle = cycle /\ OwnerResolvable(w.owner_id) /\ StepCompleted(w.chan)
        /\ w.status = "remind"
        /\ CallsOf({"chat_postMessage"}, w.chan) # {}

-----------------------------------------------------------------------------
(* C7: an unexpected error raised anywhere in a polling cycle is caught: the   *)
(* rest of the cycle is abandoned (no further call, row or verdict), the loop  *)
(* goes to sleep and then starts the next cycle; no failure ends the loop, and *)
(* after every cycle, failed or not, another cycle eventually begins.          *)

\* this step raises an unexpected error out of check_channels
C7_ErrorRaised == cycle \in failedCycles' /\ cycle \notin failedCycles

\* the cycle being run has failed and the next one has not begun
C7_Abandoned == cycle \in failedCycles

C7_FailureContained ==
    /\ [][C7_ErrorRaised => pc' = "sleep"]_vars
    /\ [][C7_Abandoned =>
            /\ pc' \in {"run", "list"}
            /\ UNCHANGED <<summaryLog, trailLog, verdicts>>
            /\ pc' = "run" => UNCHANGED calls]_vars
    /\ \A k \in 1..(MaxCycles - 1) :
          (pc = "sleep" /\ cycle = k /\ Followed) ~> (pc = "list" /\ cycle = k + 1)

\* the cycle after a failed one is fetching its channels
C7_Witness ==
    /\ cycle >= 2
    /\ (cycle - 1) \in failedCycles
    /\ pc = "for"
    /\ Len(channels) = 2

-----------------------------------------------------------------------------
(* C8: a platform-reported API error affects its call only.  A failed history  *)
(* fetch leaves the channel with no messages: it is skipped, with no row and   *)
(* no reminder.  A failed DM-open or post is not retried and leaves the rows   *)
(* of the channel in place.  In both cases the loop goes on to the remaining   *)
(* channels and the error does not leave the cycle.                            *)

\* this step makes a call of operation op that ends in SlackApiError
C8_ApiErrorStep(op) ==
    /\ Len(calls') = Len(calls) + 1
    /\ calls'[Len(calls')].op = op
    /\ calls'[Len(calls')].result = "api_error"

C8_ErrorStaysInCall ==
    /\ C8_ApiErrorStep("conversations_history") =>
          /\ messages' = <<>>
          /\ pc' = "evaluate"
          /\ UNCHANGED <<idx, summaryLog, trailLog, failedCycles>>
    /\ (C8_ApiErrorStep("conversations_open") \/ C8_ApiErrorStep("chat_postMessage")) =>
          /\ pc' = "for"
          /\ idx' = idx + 1
          /\ UNCHANGED <<summaryLog, trailLog, failedCycles>>

\* channel chan is done with, or is being evaluated right now
C8_GoesOn(chan) ==
    \/ StepCompleted(chan)
    \/ pc = "evaluate" /\ idx <= Len(channels) /\ channels[idx].id = chan

C8_ErrorLeavesNoTrace ==
    \A i \in 1..Len(calls) :
        calls[i].result = "api_error" =>
            /\ calls[i].op = "conversations_history" =>
                  /\ \A v \in CycleVerdicts : v.chan = calls[i].chan => v.status = "none"
                  /\ RowsOf(summaryLog, cycle, calls[i].chan) = {}
                  /\ RowsOf(trailLog, cycle, calls[i].chan) = {}
                  /\ CallsOf(ReminderOps, calls[i].chan) = {}
                  /\ CallsOf({"conversations_history"}, calls[i].chan) = {i}
                  /\ C8_GoesOn(calls[i].chan)
            /\ calls[i].op \in ReminderOps =>
                  /\ \A j \in CallsOf(ReminderOps, calls[i].chan) : j <= i
                  /\ CallsOf({calls[i].op}, calls[i].chan) = {i}
                  /\ Cardinality(RowsOf(summaryLog, cycle, calls[i].chan)) = 1
                  /\ Cardinality(RowsOf(trailLog, cycle, calls[i].chan)) = 1
                  /\ StepCompleted(calls[i].chan)

C8_ApiErrorContained ==
    /\ [][C8_ErrorStaysInCall]_vars
    /\ []C8_ErrorLeavesNoTrace
    /\ [](CycleEndedWell => idx > Len(channels))

\* the history of the first channel failed, the reminder of the second one failed,
\* and the cycle ended well
C8_Witness ==
    /\ CycleEndedWell
    /\ Len(channels) = 2
    /\ \E i \in CallsOf({"conversations_history"}, channels[1].id) :
          calls[i].result = "api_error"
    /\ \E i \in CallsOf({"chat_postMessage"}, channels[2].id) :
          calls[i].result = "api_error"

-----------------------------------------------------------------------------
(* C11: is_open(moment) is true exactly when the local time of day of the      *)
(* moment in the configured timezone lies between start and end, both ends     *)
(* included, and it is not a Saturday or Sunday under weekdays_only.  With the *)
(* defaults (08:00 to 17:00, weekdays only, UTC) Monday 08:00 and Monday 17:00 *)
(* are open and every hour of a Saturday is closed.                            *)

\* the days of the week from the epoch day on
C11_DayNames == <<"Thu", "Fri", "Sat", "Sun", "Mon", "Tue", "Wed">>

\* the local day and hour of the clock reading: local = 24 * day + hour
C11_LocalDay ==
    CHOOSE d \in 0..9 : \E h \in 0..23 : now + cfg.tz_offset = 24 * d + h

C11_LocalHour == (now + cfg.tz_offset) - 24 * C11_LocalDay

C11_DayName == C11_DayNames[(C11_LocalDay % 7) + 1]

C11_Weekend == C11_DayName \in {"Sat", "Sun"}

\* Monday 1970-01-05 and Saturday 1970-01-03, in hours since the epoch
C11_Monday(h) == 4 * 24 + h

C11_Saturday(h) == 2 * 24 + h

C11_OpenInclusive ==
    /\ is_open(cfg, now) <=>
          /\ cfg.start <= C11_LocalHour /\ C11_LocalHour <= cfg.end
          /\ ~ (cfg.weekdays_only /\ C11_Weekend)
    /\ (cfg = CfgDefault /\ now \in {C11_Monday(8), C11_Monday(17)}) => is_open(cfg, now)
    /\ (cfg = CfgDefault /\ \E h \in 0..23 : now = C11_Saturday(h)) => ~ is_open(cfg, now)
    /\ (Decided /\ C1_NotAnswered) =>
          (status = "remind" <=>
              now - record.client_ts >=
                  (IF is_open(cfg, now) THEN cfg.business_reply_hours
                   ELSE cfg.overall_reply_hours))

\* Monday 17:00 UTC, the last open instant of the day, has decided an exchange
C11_Witness ==
    /\ Decided
    /\ cfg = CfgDefault
    /\ now = C11_Monday(17)
    /\ is_open(cfg, now)
    /\ C11_DayName = "Mon" /\ C11_LocalHour = cfg.end

-----------------------------------------------------------------------------
(* C12: the decision is monotonic in time.  For a client message with no reply *)
(* that is decided "remind" at an instant after the message, the decision at   *)
(* every later instant with the same business-hours status is "remind" too.    *)

\* the later instants at which business hours are as they are now
C12_LaterSameHours ==
    { t \in WeekInstants : t > now /\ is_open(cfg, t) = is_open(cfg, now) }

C12_NoReply == record.team_reply_ts = NoTs

C12_RemindStays ==
    (Decided /\ C12_NoReply /\ now > record.client_ts /\ status = "remind") =>
        \A t \in C12_LaterSameHours : _decide_status(cfg, record, t) = "remind"

\* the threshold of business hours is just reached, and business hours are open
\* again the next morning
C12_Witness ==
    /\ Decided /\ C12_NoReply /\ status = "remind"
    /\ is_open(cfg, now)
    /\ now - record.client_ts = cfg.business_reply_hours
    /\ \E t \in C12_LaterSameHours : t - now >= 20

-----------------------------------------------------------------------------
(* C13: the owner of every live channel is channel_owners[id] when the id is a *)
(* key of channel_owners, otherwise channel_owners[name] when the name is a    *)
(* key, otherwise absent.  A channel configured by name only resolves to that  *)
(* owner, and with both the id and the name configured the id entry wins.      *)

\* the owner the configuration gives to the channel of a descriptor
C13_ConfiguredOwner(d) ==
    LET owners == cfg.channel_owners
    IN  IF d.id \in DOMAIN owners THEN owners[d.id]
        ELSE IF d.name \in DOMAIN owners THEN owners[d.name]
        ELSE NoneStr

C13_OwnerByIdThenName ==
    \A i \in 1..Len(channels) :
        /\ channels[i].owner_id = C13_ConfiguredOwner(channels[i])
        \* C2 is configured by its name "beta" only
        /\ (cfg.channel_owners = OwnersById /\ channels[i].id = "C2") =>
              channels[i].owner_id = "U_OWN2"
        \* C1 is configured by its id and by its name "acme"
        /\ (cfg.channel_owners = OwnersIdOnly /\ channels[i].id = "C1") =>
              channels[i].owner_id = "U_OWN1"
        \* C2 is not configured at all
        /\ (cfg.channel_owners = OwnersIdOnly /\ channels[i].id = "C2") =>
              channels[i].owner_id = NoneStr

\* the owner found by name is about to be reminded, and so is, in another
\* configuration, the owner found by id for a channel whose name is configured too
C13_Witness ==
    /\ pc = "dm_open"
    /\ cfg.channel_owners = OwnersById
    /\ channels[idx].id = "C2"
    /\ channels[idx].name = "beta"
    /\ "C2" \notin DOMAIN cfg.channel_owners
    /\ channels[idx].owner_id = "U_OWN2"

-----------------------------------------------------------------------------
(* C14: with the configuration file missing or the token missing, main ends    *)
(* with an error before the monitor is constructed: no log directory or log    *)
(* file is created, no header is written, no API call is made and no polling   *)
(* cycle is started.                                                           *)

C14_Fatal == ConfigPath \notin paths \/ environ.SLACK_BOT_TOKEN \in {Absent, ""}

\* main has not reached SlackMonitor(config, client)
C14_BeforeConstruction == pc \in {"load_config", "build_client", "exit"}

C14_NothingStarted == calls = <<>> /\ cycle = 0 /\ verdicts = <<>>

C14_FatalStartupLeavesNothing ==
    /\ [](C14_Fatal => C14_BeforeConstruction /\ C14_NothingStarted)
    /\ [][C14_BeforeConstruction =>
            UNCHANGED <<paths, summaryLog, trailLog, calls, cycle>>]_vars
    /\ [][(pc = "load_config" /\ ConfigPath \notin paths) => pc' = "exit"]_vars
    /\ [][(pc = "build_client" /\ environ.SLACK_BOT_TOKEN \in {Absent, ""}) =>
            pc' = "exit"]_vars
    /\ [][pc' = "exit" =>
            /\ Len(events') = Len(events) + 1
            /\ events'[Len(events')].level = "exception"]_vars
    /\ [][pc = "exit" => FALSE]_vars

\* the configuration was read, the token is not set: main has ended with
\* EnvironmentError and there is still no log directory
C14_Witness ==
    /\ pc = "exit"
    /\ ConfigPath \in paths
    /\ cfg # NoConfig
    /\ environ.SLACK_BOT_TOKEN = Absent
    /\ LogDir \notin paths
    /\ summaryLog = <<>> /\ trailLog = <<>>
    /\ events[Len(events)].chan = "EnvironmentError"

-----------------------------------------------------------------------------
(* C15: the two logs are append-only, with the header written once if the file *)
(* is absent.  Each log file consists of its header line followed by data      *)
(* rows; the header is written only when the file does not exist, never over   *)
(* an existing file; every later write appends one row at the end and leaves   *)
(* the earlier lines as they are.                                              *)

\* SlackMonitor has been constructed and run_forever entered
C15_Running ==
    pc \notin {"load_config", "build_client", "ensure_log_path",
               "ensure_trail_log_path", "exit"}

C15_DataRow(r) == r.cycle >= 0 /\ r.status \in {"answered", "waiting", "remind"}

C15_HeaderThenRows(log, header) ==
    /\ Len(log) >= 1
    /\ log[1] = header
    /\ \A i \in 2..Len(log) : C15_DataRow(log[i])

C15_IsPrefix(a, b) == Len(a) <= Len(b) /\ SubSeq(b, 1, Len(a)) = a

\* what one step may do to a log file at `path`, from content `log` to `after`
C15_FileStep(path, header, log, after) ==
    /\ path \notin paths =>
          \/ after = log /\ path \notin paths'
          \/ after = <<header>> /\ path \in paths'
    /\ path \in paths =>
          /\ path \in paths'
          /\ \/ after = log
             \/ /\ Len(after) = Len(log) + 1
                /\ C15_IsPrefix(log, after)
                /\ C15_DataRow(after[Len(after)])
                /\ C15_Running

C15_AppendOnlyStep ==
    /\ C15_FileStep(LogPath, SummaryHeader, summaryLog, summaryLog')
    /\ C15_FileStep(TrailLogPath, TrailHeader, trailLog, trailLog')

\* the claim as it is worded
C15_HeaderThenRowsAppendOnly ==
    /\ [](C15_Running =>
            /\ C15_HeaderThenRows(summaryLog, SummaryHeader)
            /\ C15_HeaderThenRows(trailLog, TrailHeader))
    /\ [][C15_AppendOnlyStep]_vars

(* C15 as the code has it: each log file consists of what it held when the     *)
(* monitor was started, or of its header line when it did not exist then,      *)
(* followed by the data rows appended since.  The header is written only when  *)
(* the file does not exist, never over an existing file, and every later write *)
(* appends one row at the end and leaves the earlier lines as they are.  A     *)
(* file that starts with its header keeps it; a file found without its header  *)
(* (an empty file) never receives one.                                         *)
C15_AppendOnlyFromStartup ==
    /\ [][C15_AppendOnlyStep]_vars
    /\ [][(C15_HeaderThenRows(summaryLog, SummaryHeader) =>
               C15_HeaderThenRows(summaryLog', SummaryHeader))
          /\ (C15_HeaderThenRows(trailLog, TrailHeader) =>
               C15_HeaderThenRows(trailLog', TrailHeader))]_vars
    /\ [](C15_Running =>
            /\ LogPath \in paths /\ TrailLogPath \in paths
            /\ \A i \in 2..Len(summaryLog) : C15_DataRow(summaryLog[i])
            /\ \A i \in 2..Len(trailLog) : C15_DataRow(trailLog[i])
            /\ Len(trailLog) >= 1)
    /\ []((C15_Running /\ Len(summaryLog) >= 1) =>
            (summaryLog[1] = SummaryHeader \/ C15_DataRow(summaryLog[1])))

\* the files of an earlier run have each received a row behind the rows they held
C15_Witness ==
    /\ C15_Running
    /\ Len(summaryLog) = 3 /\ C15_IsPrefix(EarlierSummary, summaryLog)
    /\ C15_DataRow(summaryLog[3]) /\ summaryLog[3].cycle = 1
    /\ Len(trailLog) = 3 /\ C15_IsPrefix(EarlierTrail, trailLog)

-----------------------------------------------------------------------------
(* C16: invalid messages never take part in an exchange.  A message whose      *)
(* subtype is channel_join, bot_message, channel_topic or channel_purpose, or  *)
(* that has neither a user id nor a bot id, is never the last client message   *)
(* and never the team reply, and _evaluate_channel returns for every list what *)
(* it returns for the list with its invalid messages removed.                  *)

C16_Invalid(m) ==
    \/ m.subtype \in {"channel_join", "bot_message", "channel_topic", "channel_purpose"}
    \/ (m.user = Absent /\ m.bot_id = Absent)

\* msgs with its invalid messages removed, the others in the order they have
C16_ValidOnly(msgs) == SelectSeq(msgs, LAMBDA m : ~ C16_Invalid(m))

\* the evaluation of line 130 has run on `messages`
C16_Evaluated == pc # "evaluate"

C16_InvalidTakeNoPart ==
    C16_Evaluated =>
        /\ record = _evaluate_channel(cfg, C16_ValidOnly(messages))
        /\ record # NoneRecord =>
              /\ \E i \in 1..Len(messages) :
                    /\ ~ C16_Invalid(messages[i])
                    /\ messages[i].ts = record.client_ts
                    /\ TextOf(messages[i]) = record.client_text
              /\ record.team_reply_ts # NoTs =>
                    \E i \in 1..Len(messages) :
                        /\ ~ C16_Invalid(messages[i])
                        /\ messages[i].ts = record.team_reply_ts
                        /\ TextOf(messages[i]) = record.team_reply_text

\* a client message followed by nothing but invalid messages: an anonymous notice
\* and a bot_message digest; the exchange has no reply
C16_Witness ==
    /\ C16_Evaluated
    /\ Len(messages) = 3
    /\ Len(C16_ValidOnly(messages)) = 1
    /\ record.client_ts = 6
    /\ record.team_reply_ts = NoTs
    /\ \E i, j \in 1..3 :
          /\ messages[i].ts > 6 /\ messages[i].subtype = "bot_message"
          /\ messages[j].ts > 6 /\ messages[j].user = Absent /\ messages[j].bot_id = Absent

-----------------------------------------------------------------------------
(* C17: ordering within a cycle.  The channels are processed one after another *)
(* in the order of the enumeration; for each channel the steps are: fetch the  *)
(* messages, evaluate, decide, append the summary row, append the trail row,   *)
(* then, for "remind" with an owner only, send the reminder.  No step of a     *)
(* later channel starts before the steps of the earlier one have finished, no  *)
(* reminder is sent before both rows of its channel are written, and the sleep *)
(* starts only after the last channel is processed or the cycle has failed.    *)

\* the steps that may follow one another
C17_Successors ==
    [run |-> {"list"},
     list |-> {"list", "for", "sleep"},
     for |-> {"evaluate", "sleep"},
     evaluate |-> {"decide", "for"},
     decide |-> {"log_record"},
     log_record |-> {"log_trail", "sleep"},
     log_trail |-> {"dispatch", "sleep"},
     dispatch |-> {"dm_open", "for"},
     dm_open |-> {"post", "for", "sleep"},
     post |-> {"for", "sleep"},
     sleep |-> {"run"}]

C17_ChannelSteps ==
    {"evaluate", "decide", "log_record", "log_trail", "dispatch", "dm_open", "post"}

C17_StepOrder ==
    /\ pc' \in C17_Successors[pc]
    \* the loop moves to the next channel when it leaves a channel, and only then
    /\ (pc \in C17_ChannelSteps /\ pc' = "for") => idx' = idx + 1
    /\ (pc # "run" /\ ~ (pc \in C17_ChannelSteps /\ pc' = "for")) =>
          (idx' = idx /\ channels' \in {channels} \cup
                                        {channels \o PageDescriptors(cfg, p, 1) :
                                            p \in {LivePages[i] : i \in 1..Len(LivePages)}})
    /\ pc \notin {"run", "list"} => channels' = channels
    \* the reminder is for "remind" with an owner only
    /\ pc' = "dm_open" => (status = "remind" /\ HasOwner(channels[idx].owner_id))
    \* the sleep starts after the last channel, or from a failure
    /\ pc' = "sleep" => (idx > Len(channels) \/ cycle \in failedCycles')

\* position of channel chan in the enumeration
C17_ChanIndex(chan) == CHOOSE i \in 1..Len(channels) : channels[i].id = chan

\* the calls of the cycle made for a channel, in the order they were made
C17_ChannelCalls == SelectSeq(calls, LAMBDA c : c.chan # Absent)

\* the rows a log has received in the cycle being run
C17_CycleRows(log) == SelectSeq(log, LAMBDA r : r.cycle = cycle)

C17_InOrder ==
    cycle >= 1 =>
        \* the channels are unique and the calls follow the enumeration
        /\ \A i, j \in 1..Len(channels) : channels[i].id = channels[j].id => i = j
        /\ \A p, q \in 1..Len(C17_ChannelCalls) :
              p < q => C17_ChanIndex(C17_ChannelCalls[p].chan)
                          <= C17_ChanIndex(C17_ChannelCalls[q].chan)
        /\ \A p \in 1..Len(C17_ChannelCalls) :
              C17_ChanIndex(C17_ChannelCalls[p].chan) <= idx
        \* within a channel: history, then conversations_open, then chat_postMessage
        /\ \A p, q \in 1..Len(C17_ChannelCalls) :
              (p < q /\ C17_ChannelCalls[p].chan = C17_ChannelCalls[q].chan) =>
                  <<C17_ChannelCalls[p].op, C17_ChannelCalls[q].op>> \in
                      { <<"conversations_history", "conversations_open">>,
                        <<"conversations_history", "chat_postMessage">>,
                        <<"conversations_open", "chat_postMessage">> }
        \* the rows follow the enumeration, one channel after the other
        /\ \A log \in {C17_CycleRows(summaryLog), C17_CycleRows(trailLog)} :
              \A p, q \in 1..Len(log) :
                  p < q => C17_ChanIndex(log[p].conversation_id)
                              < C17_ChanIndex(log[q].conversation_id)
        \* a decision comes after the fetch, the summary row after the decision, the
        \* trail row after the summary row, the reminder after both rows
        /\ \A v \in CycleVerdicts : CallsOf({"conversations_history"}, v.chan) # {}
        /\ \A i \in 1..Len(channels) :
              LET chan == channels[i].id
              IN  /\ RowsOf(summaryLog, cycle, chan) # {} =>
                        \E v \in CycleVerdicts : v.chan = chan /\ v.status # "none"
                  /\ RowsOf(trailLog, cycle, chan) # {} =>
                        RowsOf(summaryLog, cycle, chan) # {}
                  /\ CallsOf(ReminderOps, chan) # {} =>
                        /\ RowsOf(summaryLog, cycle, chan) # {}
                        /\ RowsOf(trailLog, cycle, chan) # {}
                  /\ (i > idx \/ (i = idx /\ pc = "for")) =>
                        /\ CallsOf({"conversations_history"} \cup ReminderOps, chan) = {}
                        /\ RowsOf(summaryLog, cycle, chan) = {}
                        /\ RowsOf(trailLog, cycle, chan) = {}
                        /\ \A v \in CycleVerdicts : v.chan # chan

C17_OrderedCycle ==
    /\ [][C17_StepOrder]_vars
    /\ []C17_InOrder

\* a cycle of two channels has ended: the first was fetched, decided and logged,
\* then the second was fetched, decided, logged and its owner reminded
C17_Witness ==
    /\ CycleEndedWell
    /\ Len(channels) = 2
    /\ Len(calls) = 6
    /\ calls[3].op = "conversations_history" /\ calls[3].chan = channels[1].id
    /\ calls[4].op = "conversations_history" /\ calls[4].chan = channels[2].id
    /\ calls[5].op = "conversations_open" /\ calls[5].chan = channels[2].id
    /\ calls[6].op = "chat_postMessage" /\ calls[6].chan = channels[2].id
    /\ Len(C17_CycleRows(summaryLog)) = 2
    /\ Len(C17_CycleRows(trailLog)) = 2

-----------------------------------------------------------------------------
(* C18: the enumeration follows the cursor page by page and stops exactly when *)
(* a page comes without a next cursor or a listing call fails with an API      *)
(* error.  It returns, in page order, exactly the channels with is_member true *)
(* of the pages fetched successfully: the channels of the earlier pages are    *)
(* returned and processed when a later page fails.  The enumeration ends.      *)

\* the conversations_list calls of the cycle
C18_ListCalls == SelectSeq(calls, LAMBDA c : c.op = "conversations_list")

\* the number of pages fetched successfully
C18_Fetched == Len(SelectSeq(C18_ListCalls, LAMBDA c : c.result = "ok"))

\* the channels of the first n pages, in page order
RECURSIVE C18_FirstPages(_)
C18_FirstPages(n) == IF n = 0 THEN <<>> ELSE C18_FirstPages(n - 1) \o LivePages[n]

C18_MembersOf(n) == SelectSeq(C18_FirstPages(n), LAMBDA ch : ch.is_member = TRUE)

C18_Enumeration ==
    \* the listing comes first in the cycle, and only its last call may have failed
    /\ \A i, j \in 1..Len(calls) :
          (i < j /\ calls[j].op = "conversations_list") =>
              (calls[i].op = "conversations_list" /\ calls[i].result = "ok")
    \* exactly the member channels of the pages fetched, in page order
    /\ C18_Fetched <= Len(LivePages)
    /\ Len(channels) = Len(C18_MembersOf(C18_Fetched))
    /\ \A k \in 1..Len(channels) : channels[k].id = C18_MembersOf(C18_Fetched)[k].id
    \* the listing goes on as long as the pages carry a cursor
    /\ pc = "list" =>
          /\ cursor = C18_Fetched
          /\ C18_Fetched < Len(LivePages)
          /\ Len(calls) = C18_Fetched
    \* and once it has stopped, the last page had no cursor or the last call failed
    /\ (cycle >= 1 /\ pc \notin {"list", "run"}) =>
          /\ Len(C18_ListCalls) >= 1
          /\ C18_ListCalls[Len(C18_ListCalls)].result = "ok" =>
                C18_Fetched = Len(LivePages)
          /\ C18_ListCalls[Len(C18_ListCalls)].result = "api_error" =>
                cycle \notin failedCycles \/ Len(calls) > Len(C18_ListCalls)
    \* the channels returned are processed
    /\ CycleEndedWell =>
          \A k \in 1..Len(channels) :
              CallsOf({"conversations_history"}, channels[k].id) # {}

C18_EnumerationStops ==
    /\ []C18_Enumeration
    /\ (pc = "list") ~> (pc # "list")

\* the second page failed: the member channel of the first page was returned
\* and the cycle has processed it
C18_Witness ==
    /\ CycleEndedWell
    /\ Len(C18_ListCalls) = 2
    /\ C18_ListCalls[1].result = "ok"
    /\ C18_ListCalls[2].result = "api_error"
    /\ Len(channels) = 1
    /\ channels[1].id = "C2"
    /\ CallsOf({"conversations_history"}, "C2") # {}

-----------------------------------------------------------------------------
(* C19: the evaluation does not depend on the order of delivery.  For messages *)
(* of pairwise distinct timestamps, _evaluate_channel returns the same result  *)
(* (the same record, or no exchange) for every ordering of the list.           *)

\* the orderings of msgs
C19_Orderings(msgs) ==
    { [i \in 1..Len(msgs) |-> msgs[p[i]]] : p \in Permutations(1..Len(msgs)) }

C19_OrderIndependent ==
    (C16_Evaluated /\ C4_DistinctTs(messages)) =>
        /\ \A other \in C19_Orderings(messages) : _evaluate_channel(cfg, other) = record
        /\ record = NoneRecord <=> ClientPositions(messages) = {}
        /\ record # NoneRecord => record.client_ts = LastClientTs(messages)

\* three messages delivered newest first: a reply, the client message before it
\* and an older one; the reply is found
C19_Witness ==
    /\ C16_Evaluated
    /\ Len(messages) = 3
    /\ messages[1].ts > messages[2].ts /\ messages[2].ts > messages[3].ts
    /\ 2 \in ClientPositions(messages)
    /\ 1 \in TeamPositions(messages)
    /\ record.client_ts = messages[2].ts
    /\ record.team_reply_ts = messages[1].ts

-----------------------------------------------------------------------------
(* C20: the two logs stay in step.  The number of data rows appended to the    *)
(* summary log since startup is equal to the number appended to the trail log, *)
(* or exactly one more within the current channel step, and never smaller; at  *)
(* the end of every cycle that did not fail the two logs have received the     *)
(* same number of rows in that cycle, the i-th summary row and the i-th trail  *)
(* row of the cycle naming the same channel and the same status.               *)

\* the rows a log has received in cycle k
C20_RowsIn(log, k) == SelectSeq(log, LAMBDA r : r.cycle = k)

\* how many more rows the summary log has received since startup
C20_Ahead == (Len(summaryLog) - 1) - (Len(trailLog) - 1)

\* the i-th trail row of cycle k names the channel and status of the i-th summary row
C20_RowsAgree(k) ==
    \A i \in 1..Len(C20_RowsIn(trailLog, k)) :
        /\ i <= Len(C20_RowsIn(summaryLog, k))
        /\ C20_RowsIn(trailLog, k)[i].conversation_id =
              C20_RowsIn(summaryLog, k)[i].conversation_id
        /\ C20_RowsIn(trailLog, k)[i].channel_name = C20_RowsIn(summaryLog, k)[i].channel_name
        /\ C20_RowsIn(trailLog, k)[i].status = C20_RowsIn(summaryLog, k)[i].status

C20_SameRowsAtEnd ==
    CycleEndedWell =>
        /\ Len(C20_RowsIn(summaryLog, cycle)) = Len(C20_RowsIn(trailLog, cycle))
        /\ C20_RowsAgree(cycle)

\* the claim as it is worded, with "one more" allowed in every state and not only
\* between the two writes of a channel step
C20_LogsInStep ==
    /\ C20_Ahead \in {0, 1}
    /\ C20_SameRowsAtEnd

\* the cycles abandoned between the summary row and the trail row of a channel
C20_CutShort ==
    { k \in failedCycles :
        Len(C20_RowsIn(summaryLog, k)) = Len(C20_RowsIn(trailLog, k)) + 1 }

(* C20 as the code has it: the summary log is never behind the trail log.  In  *)
(* every cycle it receives as many rows as the trail log, or one more: one     *)
(* more between the two writes of a channel step, and for good when the cycle  *)
(* is abandoned by a failing trail write, so that since startup the summary    *)
(* log is ahead by the number of cycles abandoned in that way (plus one        *)
(* between the two writes).  At the end of every cycle that did not fail the   *)
(* two logs have received the same number of rows in that cycle, the i-th rows *)
(* naming the same channel and the same status.                                *)
C20_LogsInStepUnlessCutShort ==
    /\ C20_Ahead >= 0
    /\ C20_Ahead = Cardinality(C20_CutShort) + (IF pc = "log_trail" THEN 1 ELSE 0)
    /\ \A k \in 1..cycle :
          /\ Len(C20_RowsIn(summaryLog, k)) - Len(C20_RowsIn(trailLog, k)) \in {0, 1}
          /\ Len(C20_RowsIn(summaryLog, k)) # Len(C20_RowsIn(trailLog, k)) =>
                ((k = cycle /\ pc = "log_trail") \/ k \in failedCycles)
          /\ C20_RowsAgree(k)
    /\ C20_SameRowsAtEnd

\* the first cycle was abandoned by a failing trail write; the second one has
\* ended well with two rows in each log, and the summary log is one row ahead
C20_Witness ==
    /\ cycle = 2
    /\ CycleEndedWell
    /\ C20_CutShort = {1}
    /\ C20_Ahead = 1
    /\ Len(C20_RowsIn(summaryLog, 2)) = 2
    /\ Len(C20_RowsIn(trailLog, 2)) = 2

=============================================================================
